---- MODULE Spec2Model ----
(***************************************************************************)
(* Model of the gignore rule container: typed ignore rules, the            *)
(* subsumption relation, the conflict classifier, the conflict detector,   *)
(* the multi-pass fixer and the smart insertion path.                      *)
(*                                                                         *)
(* Strings are sequences of one-character strings, so that the prefix,     *)
(* suffix and trim operations of the source are computed, not assumed.     *)
(* Indices into the rule slice are 0-based as in the source; rs[i+1] is    *)
(* the element the source writes f.rules[i].                               *)
(***************************************************************************)
EXTENDS Integers, Sequences, FiniteSets, TLC

\* ---------------------------------------------------------------- bounds
MaxRules == 3
MaxPasses == 2
MaxIntervening == 1

\* ------------------------------------------------------- string helpers
HasPrefix(s, p) == Len(p) <= Len(s) /\ SubSeq(s, 1, Len(p)) = p

HasSuffix(s, p) == Len(p) <= Len(s) /\ SubSeq(s, Len(s) - Len(p) + 1, Len(s)) = p

TrimPrefix(s, p) == IF HasPrefix(s, p) THEN SubSeq(s, Len(p) + 1, Len(s)) ELSE s

TrimSuffix(s, p) == IF HasSuffix(s, p) THEN SubSeq(s, 1, Len(s) - Len(p)) ELSE s

RECURSIVE TrimLeft(_)
TrimLeft(s) == IF s # <<>> /\ Head(s) = " " THEN TrimLeft(Tail(s)) ELSE s

RECURSIVE TrimRight(_)
TrimRight(s) == IF s # <<>> /\ s[Len(s)] = " " THEN TrimRight(SubSeq(s, 1, Len(s) - 1)) ELSE s

TrimSpace(s) == TrimRight(TrimLeft(s))

\* ------------------------------------------------------------- actions
INCLUDE == 1
EXCLUDE == 2

EXCLUDE_PREFIX == <<"!">>
INCLUDE_PREFIX == <<>>

ActionValidate(a) == IF a \in {INCLUDE, EXCLUDE} THEN "nil" ELSE "invalid action"

ActionPrefix(a) ==
    CASE a = INCLUDE -> INCLUDE_PREFIX
      [] a = EXCLUDE -> EXCLUDE_PREFIX
      [] OTHER -> INCLUDE_PREFIX

\* ------------------------------------------------------ directory modes
DIRECTORY == 1
CHILDREN == 2
RECURSIVE_MODE == 3
ANYWHERE == 4
ROOT_ONLY == 5

ModeValidate(d) ==
    IF d \in {DIRECTORY, RECURSIVE_MODE, CHILDREN, ANYWHERE, ROOT_ONLY}
    THEN "nil" ELSE "invalid directory mode"

ModePrefix(d) ==
    CASE d = ANYWHERE -> <<"*", "*", "/">>
      [] d = ROOT_ONLY -> <<"/">>
      [] OTHER -> <<>>

ModeSuffix(d) ==
    CASE d = DIRECTORY -> <<"/">>
      [] d = CHILDREN -> <<"/", "*">>
      [] d = RECURSIVE_MODE -> <<"/", "*", "*">>
      [] OTHER -> <<>>

\* ---------------------------------------------------------------- rules
\* A rule is a record [kind, name, mode, act]: name holds FileRule.path,
\* ExtensionRule.ext, DirectoryRule.name or GlobRule.pattern; mode is 0 for
\* the variants that have none.
FileRule(path, act) == [kind |-> "File", name |-> path, mode |-> 0, act |-> act]

ExtensionRule(ext, act) == [kind |-> "Extension", name |-> ext, mode |-> 0, act |-> act]

DirectoryRule(name, mode, act) == [kind |-> "Directory", name |-> name, mode |-> mode, act |-> act]

GlobRule(pattern, act) == [kind |-> "Glob", name |-> pattern, mode |-> 0, act |-> act]

NoRule == [kind |-> "None", name |-> <<>>, mode |-> 0, act |-> 0]

validatePath(path) ==
    LET p == TrimSpace(path)
    IN IF p = <<>> THEN [val |-> <<>>, err |-> "path cannot be empty"]
       ELSE [val |-> p, err |-> "nil"]

NewFileRule(path, act) ==
    LET v == validatePath(path)
    IN IF v.err # "nil" THEN [rule |-> NoRule, err |-> v.err]
       ELSE IF ActionValidate(act) # "nil" THEN [rule |-> NoRule, err |-> ActionValidate(act)]
       ELSE [rule |-> FileRule(v.val, act), err |-> "nil"]

validateExtension(ext) ==
    LET e == TrimPrefix(TrimSpace(ext), <<"*", ".">>)
    IN IF e = <<>> THEN [val |-> <<>>, err |-> "extension cannot be empty"]
       ELSE [val |-> e, err |-> "nil"]

NewExtensionRule(ext, act) ==
    LET v == validateExtension(ext)
    IN IF v.err # "nil" THEN [rule |-> NoRule, err |-> v.err]
       ELSE IF ActionValidate(act) # "nil" THEN [rule |-> NoRule, err |-> ActionValidate(act)]
       ELSE [rule |-> ExtensionRule(v.val, act), err |-> "nil"]

validateDirectoryName(name) ==
    LET n == TrimSuffix(TrimPrefix(TrimSpace(name), <<"/">>), <<"/">>)
    IN IF n = <<>> THEN [val |-> <<>>, err |-> "directory cannot be empty"]
       ELSE [val |-> n, err |-> "nil"]

NewDirectoryRule(path, mode, act) ==
    LET v == validateDirectoryName(path)
    IN IF v.err # "nil" THEN [rule |-> NoRule, err |-> v.err]
       ELSE IF ModeValidate(mode) # "nil" THEN [rule |-> NoRule, err |-> ModeValidate(mode)]
       ELSE IF ActionValidate(act) # "nil" THEN [rule |-> NoRule, err |-> ActionValidate(act)]
       ELSE [rule |-> DirectoryRule(v.val, mode, act), err |-> "nil"]

validateGlobPattern(pattern) ==
    LET p == TrimSpace(pattern)
    IN IF p = <<>> THEN [val |-> <<>>, err |-> "glob pattern cannot be empty"]
       ELSE [val |-> p, err |-> "nil"]

NewGlobRule(pattern, act) ==
    LET v == validateGlobPattern(pattern)
    IN IF v.err # "nil" THEN [rule |-> NoRule, err |-> v.err]
       ELSE IF ActionValidate(act) # "nil" THEN [rule |-> NoRule, err |-> ActionValidate(act)]
       ELSE [rule |-> GlobRule(v.val, act), err |-> "nil"]

Render(r) ==
    CASE r.kind = "File" -> ActionPrefix(r.act) \o r.name
      [] r.kind = "Extension" -> ActionPrefix(r.act) \o <<"*", ".">> \o r.name
      [] r.kind = "Directory" ->
            ActionPrefix(r.act) \o ModePrefix(r.mode) \o r.name \o ModeSuffix(r.mode)
      [] r.kind = "Glob" -> ActionPrefix(r.act) \o r.name
      [] OTHER -> <<>>

\* FileRule and GlobRule return the stored field; ExtensionRule and
\* DirectoryRule render and drop one leading "!".
Pattern(r) ==
    CASE r.kind = "File" -> r.name
      [] r.kind = "Glob" -> r.name
      [] OTHER -> IF HasPrefix(Render(r), <<"!">>) THEN Tail(Render(r)) ELSE Render(r)

Action(r) == r.act

rulesEqual(left, right) == Pattern(left) = Pattern(right) /\ Action(left) = Action(right)

\* ---------------------------------------------------------- subsumption
pathSubsumes(broader, specific) == HasPrefix(specific, broader)

pathStartsWith(path, prefix) == HasPrefix(path, prefix)

dirModeSubsumes(broader, narrower) ==
    \/ broader = RECURSIVE_MODE /\ narrower \in {DIRECTORY, CHILDREN}
    \/ broader = CHILDREN /\ narrower = DIRECTORY

directorySubsumes(rule, specific) ==
    CASE specific.kind = "Directory" ->
            IF rule.name = specific.name
            THEN dirModeSubsumes(rule.mode, specific.mode)
            ELSE pathSubsumes(Pattern(rule), Pattern(specific))
      [] specific.kind = "File" -> pathStartsWith(Pattern(specific), rule.name \o <<"/">>)
      [] specific.kind = "Glob" ->
            IF rule.mode = RECURSIVE_MODE
            THEN pathStartsWith(Pattern(specific), TrimSuffix(Pattern(rule), <<"/", "*", "*">>))
            ELSE FALSE
      [] OTHER -> FALSE

\* globSubsumes without the test that the other rule is a FileRule.
globSubsumes_anyRule(glob, other) ==
    IF HasPrefix(glob.name, <<"*", ".">>)
    THEN HasSuffix(Pattern(other), <<".">> \o TrimPrefix(glob.name, <<"*", ".">>))
    ELSE FALSE

globSubsumes(glob, other) ==
    IF HasPrefix(glob.name, <<"*", ".">>) /\ other.kind = "File"
    THEN HasSuffix(Pattern(other), <<".">> \o TrimPrefix(glob.name, <<"*", ".">>))
    ELSE FALSE

extensionSubsumes(ext, other) ==
    CASE other.kind = "File" -> HasSuffix(Pattern(other), <<".">> \o ext.name)
      [] other.kind = "Glob" -> HasSuffix(other.name, <<".">> \o ext.name)
      [] OTHER -> FALSE

subsumes(left, right) ==
    CASE left.kind = "Directory" -> directorySubsumes(left, right)
      [] left.kind = "Glob" -> globSubsumes(left, right)
      [] left.kind = "Extension" -> extensionSubsumes(left, right)
      [] left.kind = "File" -> FALSE
      [] OTHER -> FALSE

\* ------------------------------------------------------------ classifier
SEMANTIC_CONFLICT == "SEMANTIC_CONFLICT"
REDUNDANT_RULE == "REDUNANT_RULE"
UNREACHABLE_RULE == "UNREACHABLE_RULE"
INEFFECTIVE_RULE == "INEFFECTIVE_RULE"

Conflict(l, r, t) == [found |-> TRUE, Left |-> l, Right |-> r, ConflictType |-> t]

NoConflict == [found |-> FALSE, Left |-> NoRule, Right |-> NoRule, ConflictType |-> ""]

\* ruleAffectsPatternSpace with the test on the broader rule's base alone.
ruleAffectsPatternSpace_baseOnly(exception, broader, specific) ==
    HasPrefix(Pattern(exception), TrimSuffix(Pattern(broader), <<"/", "*", "*">>))

ruleAffectsPatternSpace(exception, broader, specific) ==
    LET broaderBase == TrimSuffix(Pattern(broader), <<"/", "*", "*">>)
    IN IF ~HasPrefix(Pattern(exception), broaderBase) THEN FALSE
       ELSE IF specific.kind = "Directory" /\ specific.mode = DIRECTORY
            THEN HasPrefix(Pattern(exception), specific.name)
       ELSE IF specific.kind = "File"
            THEN HasPrefix(Pattern(specific), TrimPrefix(Pattern(exception), <<"!">>))
       ELSE HasPrefix(Pattern(exception), broaderBase)

\* hasInterveningExceptions with the action test turned round: rules of the
\* broader rule's own action are taken for exceptions.
hasInterveningExceptions_sameAction(broader, specific, intervening) ==
    \E k \in 1..Len(intervening) :
        /\ Action(intervening[k]) = Action(broader)
        /\ ruleAffectsPatternSpace(intervening[k], broader, specific)

hasInterveningExceptions(broader, specific, intervening) ==
    \E k \in 1..Len(intervening) :
        /\ Action(intervening[k]) # Action(broader)
        /\ ruleAffectsPatternSpace(intervening[k], broader, specific)

\* checkConflict testing subsumption before the equality of the pattern keys.
checkConflict_subsumptionFirst(left, right, intervening) ==
    IF Action(left) = Action(right) /\ subsumes(left, right)
    THEN IF hasInterveningExceptions(left, right, intervening)
         THEN NoConflict
         ELSE Conflict(left, right, UNREACHABLE_RULE)
    ELSE IF Action(left) = Action(right) /\ subsumes(right, left)
    THEN IF hasInterveningExceptions(right, left, intervening)
         THEN NoConflict
         ELSE Conflict(right, left, UNREACHABLE_RULE)
    ELSE IF Action(left) = EXCLUDE /\ Action(right) = INCLUDE /\ subsumes(right, left)
    THEN Conflict(left, right, INEFFECTIVE_RULE)
    ELSE IF Pattern(left) = Pattern(right)
    THEN IF Action(left) # Action(right)
         THEN Conflict(left, right, SEMANTIC_CONFLICT)
         ELSE Conflict(left, right, REDUNDANT_RULE)
    ELSE NoConflict

\* checkConflict keeping the file order of the sides when the later rule is
\* the broader one.
checkConflict_noSwap(left, right, intervening) ==
    IF Pattern(left) = Pattern(right)
    THEN IF Action(left) # Action(right)
         THEN Conflict(left, right, SEMANTIC_CONFLICT)
         ELSE Conflict(left, right, REDUNDANT_RULE)
    ELSE IF Action(left) = Action(right) /\ subsumes(left, right)
    THEN IF hasInterveningExceptions(left, right, intervening)
         THEN NoConflict
         ELSE Conflict(left, right, UNREACHABLE_RULE)
    ELSE IF Action(left) = Action(right) /\ subsumes(right, left)
    THEN IF hasInterveningExceptions(right, left, intervening)
         THEN NoConflict
         ELSE Conflict(left, right, UNREACHABLE_RULE)
    ELSE IF Action(left) = EXCLUDE /\ Action(right) = INCLUDE /\ subsumes(right, left)
    THEN Conflict(left, right, INEFFECTIVE_RULE)
    ELSE NoConflict

\* checkConflict reporting INEFFECTIVE_RULE in either order of the two rules.
checkConflict_ineffectiveEitherOrder(left, right, intervening) ==
    IF Pattern(left) = Pattern(right)
    THEN IF Action(left) # Action(right)
         THEN Conflict(left, right, SEMANTIC_CONFLICT)
         ELSE Conflict(left, right, REDUNDANT_RULE)
    ELSE IF Action(left) = Action(right) /\ subsumes(left, right)
    THEN IF hasInterveningExceptions(left, right, intervening)
         THEN NoConflict
         ELSE Conflict(left, right, UNREACHABLE_RULE)
    ELSE IF Action(left) = Action(right) /\ subsumes(right, left)
    THEN IF hasInterveningExceptions(right, left, intervening)
         THEN NoConflict
         ELSE Conflict(right, left, UNREACHABLE_RULE)
    ELSE IF Action(left) = EXCLUDE /\ Action(right) = INCLUDE /\ subsumes(right, left)
    THEN Conflict(left, right, INEFFECTIVE_RULE)
    ELSE IF Action(left) = INCLUDE /\ Action(right) = EXCLUDE /\ subsumes(left, right)
    THEN Conflict(right, left, INEFFECTIVE_RULE)
    ELSE NoConflict

checkConflict(left, right, intervening) ==
    IF Pattern(left) = Pattern(right)
    THEN IF Action(left) # Action(right)
         THEN Conflict(left, right, SEMANTIC_CONFLICT)
         ELSE Conflict(left, right, REDUNDANT_RULE)
    ELSE IF Action(left) = Action(right) /\ subsumes(left, right)
    THEN IF hasInterveningExceptions(left, right, intervening)
         THEN NoConflict
         ELSE Conflict(left, right, UNREACHABLE_RULE)
    ELSE IF Action(left) = Action(right) /\ subsumes(right, left)
    THEN IF hasInterveningExceptions(right, left, intervening)
         THEN NoConflict
         ELSE Conflict(right, left, UNREACHABLE_RULE)
    ELSE IF Action(left) = EXCLUDE /\ Action(right) = INCLUDE /\ subsumes(right, left)
    THEN Conflict(left, right, INEFFECTIVE_RULE)
    ELSE NoConflict

\* ------------------------------------------------------------- results
REVIEW_RECOMMENDED == 1
FIXED == 2
ADDED == 3
MOVED == 4
REMOVED == 5

REQUESTED == 1
AUTOMATED_FIX == 2
FIX_UNKNOWN == 3

Result(rule, result, reason) == [Rule |-> rule, Result |-> result, Reason |-> reason]

\* The zero value Result{}.
EmptyResult == [Rule |-> NoRule, Result |-> 0, Reason |-> 0]

\* ------------------------------------------------------------ container
\* Slice helpers over 0-based indices: rs[:i], rs[i:], the element at i.
At(rs, i) == rs[i + 1]

Upto(rs, i) == SubSeq(rs, 1, i)

From(rs, i) == SubSeq(rs, i + 1, Len(rs))

addRule(rs, rule) == Append(rs, rule)

findRuleIndex(rs, target) ==
    IF \E i \in 0..(Len(rs) - 1) : rulesEqual(At(rs, i), target)
    THEN CHOOSE i \in 0..(Len(rs) - 1) :
            /\ rulesEqual(At(rs, i), target)
            /\ \A k \in 0..(i - 1) : ~rulesEqual(At(rs, k), target)
    ELSE -1

ruleShouldComeBefore(newRule, existing) ==
    Action(newRule) = Action(existing) /\ subsumes(newRule, existing)

\* deleteMatchingRule removing the last rule equal to the target.
deleteMatchingRule_lastMatch(rs, target, reason) ==
    LET i == CHOOSE k \in -1..(Len(rs) - 1) :
                 /\ k # -1 => rulesEqual(At(rs, k), target)
                 /\ \A m \in (k + 1)..(Len(rs) - 1) : ~rulesEqual(At(rs, m), target)
                 /\ k = -1 => findRuleIndex(rs, target) = -1
    IN IF i # -1
       THEN [rules |-> Upto(rs, i) \o From(rs, i + 1),
             result |-> Result(target, REMOVED, reason), err |-> "nil"]
       ELSE [rules |-> rs, result |-> EmptyResult, err |-> "rule not found"]

\* deleteMatchingRule cutting the slice at the match: f.rules[:i].
deleteMatchingRule_truncates(rs, target, reason) ==
    LET i == findRuleIndex(rs, target)
    IN IF i # -1
       THEN [rules |-> Upto(rs, i),
             result |-> Result(target, REMOVED, reason), err |-> "nil"]
       ELSE [rules |-> rs, result |-> EmptyResult, err |-> "rule not found"]

deleteMatchingRule(rs, target, reason) ==
    LET i == findRuleIndex(rs, target)
    IN IF i # -1
       THEN [rules |-> Upto(rs, i) \o From(rs, i + 1),
             result |-> Result(target, REMOVED, reason), err |-> "nil"]
       ELSE [rules |-> rs, result |-> EmptyResult, err |-> "rule not found"]

BEFORE == 1
AFTER == 2

\* moveRule without the adjustment of the target index after the removal.
moveRule_noAdjust(rs, from, to) ==
    IF from < 0 \/ from >= Len(rs) THEN [rules |-> rs, err |-> "from index out of range"]
    ELSE IF from = to THEN [rules |-> rs, err |-> "nil"]
    ELSE LET rule == rs[from + 1]
             removed == SubSeq(rs, 1, from) \o SubSeq(rs, from + 2, Len(rs))
         IN IF to < 0 \/ to > Len(removed)
            THEN [rules |-> removed, err |-> "target index out of range"]
            ELSE [rules |-> SubSeq(removed, 1, to) \o <<rule>>
                              \o SubSeq(removed, to + 1, Len(removed)),
                  err |-> "nil"]

\* moveRule(from, to): the slice is left with the rule removed when the
\* adjusted target is out of range.
moveRule(rs, from, to) ==
    IF from < 0 \/ from >= Len(rs) THEN [rules |-> rs, err |-> "from index out of range"]
    ELSE IF from = to THEN [rules |-> rs, err |-> "nil"]
    ELSE LET rule == At(rs, from)
             removed == Upto(rs, from) \o From(rs, from + 1)
             t == IF to > from THEN to - 1 ELSE to
         IN IF t < 0 \/ t > Len(removed)
            THEN [rules |-> removed, err |-> "target index out of range"]
            ELSE [rules |-> Upto(removed, t) \o <<rule>> \o From(removed, t), err |-> "nil"]

\* MoveRule taking the target's own index as the new index in both directions.
MoveRule_newIdxIsTarget(rs, ruleToMove, targetRule, direction, reason) ==
    LET moveIdx == findRuleIndex(rs, ruleToMove)
        targetIdx == findRuleIndex(rs, targetRule)
        newIdx == targetIdx
        skip == [rules |-> rs, result |-> EmptyResult, err |-> "nil"]
    IN IF moveIdx = -1
       THEN [rules |-> rs, result |-> EmptyResult, err |-> "rule to move not found"]
       ELSE IF targetIdx = -1
       THEN [rules |-> rs, result |-> EmptyResult, err |-> "target rule not found"]
       ELSE IF direction \notin {BEFORE, AFTER}
       THEN [rules |-> rs, result |-> EmptyResult, err |-> "invalid direction"]
       ELSE IF direction = BEFORE /\ moveIdx = targetIdx - 1 THEN skip
       ELSE IF direction = AFTER /\ moveIdx = newIdx THEN skip
       ELSE IF moveIdx = newIdx THEN skip
       ELSE LET moved(m) ==
                    IF m.err # "nil"
                    THEN [rules |-> m.rules, result |-> EmptyResult, err |-> m.err]
                    ELSE [rules |-> m.rules, result |-> Result(ruleToMove, MOVED, reason),
                          err |-> "nil"]
            IN moved(moveRule(rs, moveIdx, newIdx))

\* MoveRule without the early returns for a rule already in place.
MoveRule_noEarlyReturn(rs, ruleToMove, targetRule, direction, reason) ==
    LET moveIdx == findRuleIndex(rs, ruleToMove)
        targetIdx == findRuleIndex(rs, targetRule)
        newIdx == IF direction = BEFORE THEN targetIdx ELSE targetIdx + 1
        skip == [rules |-> rs, result |-> EmptyResult, err |-> "nil"]
    IN IF moveIdx = -1
       THEN [rules |-> rs, result |-> EmptyResult, err |-> "rule to move not found"]
       ELSE IF targetIdx = -1
       THEN [rules |-> rs, result |-> EmptyResult, err |-> "target rule not found"]
       ELSE IF direction \notin {BEFORE, AFTER}
       THEN [rules |-> rs, result |-> EmptyResult, err |-> "invalid direction"]
       ELSE LET moved(m) ==
                    IF m.err # "nil"
                    THEN [rules |-> m.rules, result |-> EmptyResult, err |-> m.err]
                    ELSE [rules |-> m.rules, result |-> Result(ruleToMove, MOVED, reason),
                          err |-> "nil"]
            IN moved(moveRule(rs, moveIdx, newIdx))

MoveRule(rs, ruleToMove, targetRule, direction, reason) ==
    LET moveIdx == findRuleIndex(rs, ruleToMove)
        targetIdx == findRuleIndex(rs, targetRule)
        newIdx == IF direction = BEFORE THEN targetIdx ELSE targetIdx + 1
        skip == [rules |-> rs, result |-> EmptyResult, err |-> "nil"]
    IN IF moveIdx = -1
       THEN [rules |-> rs, result |-> EmptyResult, err |-> "rule to move not found"]
       ELSE IF targetIdx = -1
       THEN [rules |-> rs, result |-> EmptyResult, err |-> "target rule not found"]
       ELSE IF direction \notin {BEFORE, AFTER}
       THEN [rules |-> rs, result |-> EmptyResult, err |-> "invalid direction"]
       ELSE IF direction = BEFORE /\ moveIdx = targetIdx - 1 THEN skip
       ELSE IF direction = AFTER /\ moveIdx = newIdx THEN skip
       ELSE IF moveIdx = newIdx THEN skip
       ELSE LET moved(m) ==
                    IF m.err # "nil"
                    THEN [rules |-> m.rules, result |-> EmptyResult, err |-> m.err]
                    ELSE [rules |-> m.rules, result |-> Result(ruleToMove, MOVED, reason),
                          err |-> "nil"]
            IN moved(moveRule(rs, moveIdx, newIdx))

\* ------------------------------------------------------------- detector
\* The detector listing a row's conflicts from the last pair to the first.
RECURSIVE FindFrom_rowReversed(_, _, _)
FindFrom_rowReversed(rs, i, j) ==
    IF i >= Len(rs) THEN <<>>
    ELSE IF j >= Len(rs) THEN FindFrom_rowReversed(rs, i + 1, i + 2)
    ELSE LET c == checkConflict(At(rs, i), At(rs, j), SubSeq(rs, i + 2, j))
         IN FindFrom_rowReversed(rs, i, j + 1) \o (IF c.found THEN <<c>> ELSE <<>>)

\* The conflicts of the pairs (i, j), i < j, from (i, j) on, in the order of
\* the two nested loops.
RECURSIVE FindFrom(_, _, _)
FindFrom(rs, i, j) ==
    IF i >= Len(rs) THEN <<>>
    ELSE IF j >= Len(rs) THEN FindFrom(rs, i + 1, i + 2)
    ELSE LET c == checkConflict(At(rs, i), At(rs, j), SubSeq(rs, i + 2, j))
         IN (IF c.found THEN <<c>> ELSE <<>>) \o FindFrom(rs, i, j + 1)

FindConflicts(rs) == FindFrom(rs, 0, 1)

\* ---------------------------------------------------------------- fixer
\* fixConflict that settles a semantic conflict by deleting its left rule.
fixConflict_semanticDeletes(rs, conflict) ==
    CASE conflict.ConflictType = REDUNDANT_RULE ->
            deleteMatchingRule(rs, conflict.Left, AUTOMATED_FIX)
      [] conflict.ConflictType = UNREACHABLE_RULE ->
            IF findRuleIndex(rs, conflict.Right) = findRuleIndex(rs, conflict.Left) + 1
            THEN deleteMatchingRule(rs, conflict.Right, AUTOMATED_FIX)
            ELSE MoveRule(rs, conflict.Right, conflict.Left, AFTER, AUTOMATED_FIX)
      [] conflict.ConflictType = SEMANTIC_CONFLICT ->
            deleteMatchingRule(rs, conflict.Left, FIX_UNKNOWN)
      [] conflict.ConflictType = INEFFECTIVE_RULE ->
            MoveRule(rs, conflict.Left, conflict.Right, AFTER, AUTOMATED_FIX)
      [] OTHER -> [rules |-> rs, result |-> EmptyResult, err |-> "nil"]

fixConflict(rs, conflict) ==
    CASE conflict.ConflictType = REDUNDANT_RULE ->
            deleteMatchingRule(rs, conflict.Left, AUTOMATED_FIX)
      [] conflict.ConflictType = UNREACHABLE_RULE ->
            LET leftIdx == findRuleIndex(rs, conflict.Left)
                rightIdx == findRuleIndex(rs, conflict.Right)
            IN IF rightIdx = leftIdx + 1
               THEN deleteMatchingRule(rs, conflict.Right, AUTOMATED_FIX)
               ELSE MoveRule(rs, conflict.Right, conflict.Left, AFTER, AUTOMATED_FIX)
      [] conflict.ConflictType = SEMANTIC_CONFLICT ->
            [rules |-> rs, result |-> Result(conflict.Left, REVIEW_RECOMMENDED, FIX_UNKNOWN),
             err |-> "nil"]
      [] conflict.ConflictType = INEFFECTIVE_RULE ->
            MoveRule(rs, conflict.Left, conflict.Right, AFTER, AUTOMATED_FIX)
      [] OTHER -> [rules |-> rs, result |-> EmptyResult, err |-> "nil"]

\* One call of fixConflict, recorded for the properties that speak of a
\* single repair: the conflict handled, the rules before and after, and what
\* the call returned.
Step(conflict, before, f) ==
    [conflict |-> conflict, before |-> before, after |-> f.rules,
     result |-> f.result, err |-> f.err]

\* The inner loop of FixConflicts: repair the conflicts collected at the start
\* of the pass one by one, stopping at the first error.
RECURSIVE fixEach(_, _, _, _)
fixEach(rs, conflicts, fixLogs, steps) ==
    IF conflicts = <<>>
    THEN [rules |-> rs, fixLogs |-> fixLogs, err |-> "nil", steps |-> steps]
    ELSE LET fixed(f, st) ==
                 IF f.err # "nil"
                 THEN [rules |-> f.rules, fixLogs |-> fixLogs, err |-> f.err, steps |-> st]
                 ELSE fixEach(f.rules, Tail(conflicts), Append(fixLogs, f.result), st)
             recorded(f) == fixed(f, Append(steps, Step(Head(conflicts), rs, f)))
         IN recorded(fixConflict(rs, Head(conflicts)))

\* The outer loop running one pass more than its budget.
RECURSIVE fixPasses_onePassMore(_, _, _, _, _)
fixPasses_onePassMore(rs, left, fixLogs, steps, passes) ==
    LET done == [rules |-> rs, fixLogs |-> fixLogs, err |-> "nil", steps |-> steps,
                 passes |-> passes]
        pass(p) ==
            IF p.err # "nil"
            THEN [rules |-> p.rules, fixLogs |-> p.fixLogs, err |-> p.err,
                  steps |-> p.steps, passes |-> passes + 1]
            ELSE fixPasses_onePassMore(p.rules, left - 1, p.fixLogs, p.steps, passes + 1)
        found(conflicts) ==
            IF Len(conflicts) = 0 THEN done
            ELSE pass(fixEach(rs, conflicts, fixLogs, steps))
    IN IF left < 0 THEN done ELSE found(FindConflicts(rs))

\* The outer loop; passes counts the passes that found conflicts.
RECURSIVE fixPasses(_, _, _, _, _)
fixPasses(rs, left, fixLogs, steps, passes) ==
    LET done == [rules |-> rs, fixLogs |-> fixLogs, err |-> "nil", steps |-> steps,
                 passes |-> passes]
        pass(p) ==
            IF p.err # "nil"
            THEN [rules |-> p.rules, fixLogs |-> p.fixLogs, err |-> p.err,
                  steps |-> p.steps, passes |-> passes + 1]
            ELSE fixPasses(p.rules, left - 1, p.fixLogs, p.steps, passes + 1)
        found(conflicts) ==
            IF Len(conflicts) = 0 THEN done
            ELSE pass(fixEach(rs, conflicts, fixLogs, steps))
    IN IF left <= 0 THEN done ELSE found(FindConflicts(rs))

FixConflicts(rs, maxPasses) == fixPasses(rs, maxPasses, <<>>, <<>>, 0)

\* ------------------------------------------------------- smart insertion
AddMaxPasses == 20

\* The scan with no intervening rules handed to the classifier.
RECURSIVE addScan_noIntervening(_, _, _, _)
addScan_noIntervening(rs, rule, i, ideal) ==
    IF i >= Len(rs) THEN [err |-> "nil", ideal |-> ideal]
    ELSE LET existing == rs[i + 1]
             before(p1) == IF ruleShouldComeBefore(rule, existing) /\ i < p1 THEN i ELSE p1
             checked(c) ==
                 IF c.found /\ c.ConflictType = SEMANTIC_CONFLICT
                 THEN [err |-> "semantic conflict", ideal |-> ideal]
                 ELSE IF c.found /\ c.ConflictType = REDUNDANT_RULE
                 THEN [err |-> "redundant rule", ideal |-> ideal]
                 ELSE IF c.found /\ c.ConflictType = UNREACHABLE_RULE
                 THEN [err |-> "unreachable rule", ideal |-> ideal]
                 ELSE addScan_noIntervening(rs, rule, i + 1,
                         before(IF c.found /\ c.ConflictType = INEFFECTIVE_RULE
                                THEN i ELSE ideal))
         IN checked(checkConflict(existing, rule, <<>>))

\* The scan of addRuleWithConflictResolution from index i on, with the
\* insertion point found so far.
RECURSIVE addScan(_, _, _, _)
addScan(rs, rule, i, ideal) ==
    IF i >= Len(rs) THEN [err |-> "nil", ideal |-> ideal]
    ELSE LET existing == At(rs, i)
             before(p1) == IF ruleShouldComeBefore(rule, existing) /\ i < p1 THEN i ELSE p1
             checked(c) ==
                 IF c.found /\ c.ConflictType = SEMANTIC_CONFLICT
                 THEN [err |-> "semantic conflict", ideal |-> ideal]
                 ELSE IF c.found /\ c.ConflictType = REDUNDANT_RULE
                 THEN [err |-> "redundant rule", ideal |-> ideal]
                 ELSE IF c.found /\ c.ConflictType = UNREACHABLE_RULE
                 THEN [err |-> "unreachable rule", ideal |-> ideal]
                 ELSE addScan(rs, rule, i + 1,
                         before(IF c.found /\ c.ConflictType = INEFFECTIVE_RULE
                                THEN i ELSE ideal))
         IN checked(checkConflict(existing, rule, From(rs, i + 1)))

idealInsertionPoint(rs, rule) == addScan(rs, rule, 0, Len(rs))

insertAt(rs, rule, idx) == Upto(rs, idx) \o <<rule>> \o From(rs, idx)

\* Insertion that appends the rule before the scan and leaves it in place
\* when the scan rejects it.
addRuleWithConflictResolution_appendsFirst(rs, rule) ==
    LET fixed(f) ==
            IF f.err # "nil"
            THEN [rules |-> f.rules, results |-> <<>>, err |-> f.err, steps |-> f.steps,
                  passes |-> f.passes]
            ELSE [rules |-> f.rules,
                  results |-> <<Result(rule, ADDED, REQUESTED)>> \o f.fixLogs,
                  err |-> "nil", steps |-> f.steps, passes |-> f.passes]
        scanned(s) ==
            IF s.err # "nil"
            THEN [rules |-> Append(rs, rule), results |-> <<>>, err |-> s.err, steps |-> <<>>,
                  passes |-> 0]
            ELSE fixed(FixConflicts(insertAt(rs, rule, s.ideal), AddMaxPasses))
    IN scanned(idealInsertionPoint(rs, rule))

\* Insertion that does not run the fixer after it.
addRuleWithConflictResolution_noFixer(rs, rule) ==
    LET scanned(s) ==
            IF s.err # "nil"
            THEN [rules |-> rs, results |-> <<>>, err |-> s.err, steps |-> <<>>,
                  passes |-> 0]
            ELSE [rules |-> insertAt(rs, rule, s.ideal),
                  results |-> <<Result(rule, ADDED, REQUESTED)>>,
                  err |-> "nil", steps |-> <<>>, passes |-> 0]
    IN scanned(idealInsertionPoint(rs, rule))

addRuleWithConflictResolution(rs, rule) ==
    LET fixed(f) ==
            IF f.err # "nil"
            THEN [rules |-> f.rules, results |-> <<>>, err |-> f.err, steps |-> f.steps,
                  passes |-> f.passes]
            ELSE [rules |-> f.rules,
                  results |-> <<Result(rule, ADDED, REQUESTED)>> \o f.fixLogs,
                  err |-> "nil", steps |-> f.steps, passes |-> f.passes]
        scanned(s) ==
            IF s.err # "nil"
            THEN [rules |-> rs, results |-> <<>>, err |-> s.err, steps |-> <<>>,
                  passes |-> 0]
            ELSE fixed(FixConflicts(insertAt(rs, rule, s.ideal), AddMaxPasses))
    IN scanned(idealInsertionPoint(rs, rule))

\* --------------------------------------------------------------- parser
Contains(s, ch) == \E k \in 1..Len(s) : s[k] = ch

isExtensionPattern(line) ==
    /\ HasPrefix(line, <<"*", ".">>)
    /\ ~Contains(SubSeq(line, 3, Len(line)), "/")
    /\ ~Contains(SubSeq(line, 3, Len(line)), "*")

isDirectoryPattern(line) ==
    \/ HasSuffix(line, <<"/">>)
    \/ HasSuffix(line, <<"/", "*">>)
    \/ HasSuffix(line, <<"/", "*", "*">>)
    \/ HasPrefix(line, <<"*", "*", "/">>)
    \/ HasPrefix(line, <<"/">>)

parseDirectoryRule(line, action) ==
    CASE HasSuffix(line, <<"/", "*", "*">>) ->
            NewDirectoryRule(TrimSuffix(line, <<"/", "*", "*">>), RECURSIVE_MODE, action)
      [] HasSuffix(line, <<"/", "*">>) ->
            NewDirectoryRule(TrimSuffix(line, <<"/", "*">>), CHILDREN, action)
      [] HasSuffix(line, <<"/">>) ->
            NewDirectoryRule(TrimSuffix(line, <<"/">>), DIRECTORY, action)
      [] HasPrefix(line, <<"*", "*", "/">>) ->
            NewDirectoryRule(TrimPrefix(line, <<"*", "*", "/">>), ANYWHERE, action)
      [] HasPrefix(line, <<"/">>) ->
            NewDirectoryRule(TrimPrefix(line, <<"/">>), ROOT_ONLY, action)
      [] OTHER -> [rule |-> NoRule, err |-> "invalid directory error"]

isGlobPattern(line) == Contains(line, "*") \/ Contains(line, "?") \/ Contains(line, "[")

parseRule(line0) ==
    LET action == IF HasPrefix(line0, <<"!">>) THEN EXCLUDE ELSE INCLUDE
        line == IF HasPrefix(line0, <<"!">>) THEN Tail(line0) ELSE line0
    IN IF isExtensionPattern(line) THEN NewExtensionRule(line, action)
       ELSE IF isDirectoryPattern(line) THEN parseDirectoryRule(line, action)
       ELSE IF isGlobPattern(line) THEN NewGlobRule(line, action)
       ELSE NewFileRule(line, action)

\* Parse applied to a content of one line: blank lines, comments and lines
\* that fail to parse leave the container as it is.
ParseLine(rs, content) ==
    LET line == TrimSpace(content)
    IN IF line = <<>> \/ HasPrefix(line, <<"#">>) THEN rs
       ELSE IF parseRule(line).err # "nil" THEN rs
       ELSE addRule(rs, parseRule(line).rule)

\* --------------------------------------------------------------- render
NewLine == "\n"

RECURSIVE Join(_)
Join(lines) ==
    IF lines = <<>> THEN <<>>
    ELSE IF Len(lines) = 1 THEN lines[1]
    ELSE lines[1] \o <<NewLine>> \o Join(Tail(lines))

RenderOptions(trailingNewLine, headerComment) ==
    [TrailingNewLine |-> trailingNewLine, HeaderComment |-> headerComment]

\* Render(ignoreFile, options): the header comment and a blank line when a
\* header is given, one line per rule, joined by newlines.
RenderFile(rs, options) ==
    LET header == IF Len(options.HeaderComment) > 0
                  THEN << <<"#", " ">> \o options.HeaderComment, <<>> >>
                  ELSE <<>>
        result == Join(header \o [k \in 1..Len(rs) |-> Render(rs[k])])
    IN IF options.TrailingNewLine THEN result \o <<NewLine>> ELSE result

\* --------------------------------------------------------------- inputs
sBFT == <<"b", "/", "f", ".", "t">>
sC == <<"c">>
sB == <<"b">>
sT == <<"t">>
sStarT == <<"*", ".", "t">>

Lines ==
    { sBFT, <<"!">> \o sBFT, <<" ">> \o sC, sStarT,
      <<"b", "/", "*", "*">>, <<"b", "/">>, <<"!", "b", "/">>,
      <<"/", "b", "/">>, <<"#", "c">>, <<>> }

FileArgs ==
    { <<sBFT, INCLUDE>>, <<sBFT, EXCLUDE>>, <<sC \o <<" ">>, INCLUDE>>,
      <<<<" ">>, INCLUDE>>, <<sC, 0>> }

ExtensionArgs ==
    { <<sStarT, INCLUDE>>, <<sT, INCLUDE>>, <<<<".">> \o sT, INCLUDE>>,
      <<<<"*", ".">>, EXCLUDE>> }

DirectoryArgs ==
    { <<sB, RECURSIVE_MODE, INCLUDE>>, <<<<"/", "b", "/">>, DIRECTORY, INCLUDE>>,
      <<sB, DIRECTORY, EXCLUDE>>, <<<<"!">> \o sB, DIRECTORY, INCLUDE>>,
      <<sB, 0, INCLUDE>>, <<<<"/">>, DIRECTORY, INCLUDE>> }

GlobArgs == { <<sStarT, INCLUDE>>, <<<<>>, INCLUDE>> }

PassBudgets == 0..MaxPasses

MoveDirections == {BEFORE, AFTER, 0}

\* The rules the classifier and the subsumption relation are applied to:
\* every directory mode and both actions on a directory, a directory whose
\* name merely begins with the same letter, a nested directory, files inside
\* and outside them, an extension, and globs with and without a directory.
sBB == <<"b", "b">>
sBC == <<"b", "/", "c">>
sBCFT == sBC \o <<"/", "f", ".", "t">>
sBStarT == <<"b", "/">> \o sStarT

Actions == {INCLUDE, EXCLUDE}

DirectoryModes == {DIRECTORY, CHILDREN, RECURSIVE_MODE, ANYWHERE, ROOT_ONLY}

RuleUniverse ==
    {NewDirectoryRule(n, m, a).rule : n \in {sB, sBB, sBC}, m \in DirectoryModes, a \in Actions}
    \cup {NewFileRule(p, a).rule : p \in {sBFT, sBCFT, sC}, a \in Actions}
    \cup {NewExtensionRule(sT, a).rule : a \in Actions}
    \cup {NewGlobRule(g, a).rule : g \in {sStarT, sBStarT}, a \in Actions}

\* The rules that stand between the two rules handed to the classifier.
InterveningRules ==
    {NewFileRule(p, a).rule : p \in {sBFT, sBCFT, sC}, a \in Actions}
    \cup {NewDirectoryRule(sB, DIRECTORY, a).rule : a \in Actions}

RECURSIVE SeqsUpTo(_, _)
SeqsUpTo(S, n) ==
    IF n = 0 THEN {<<>>}
    ELSE SeqsUpTo(S, n - 1)
         \cup {Append(q, x) : q \in {q0 \in SeqsUpTo(S, n - 1) : Len(q0) = n - 1}, x \in S}

Intervenings == SeqsUpTo(InterveningRules, MaxIntervening)

\* The rules MoveRule is called with: those of the container and one that no
\* input puts into it.
MoveRuleArgs(rs) == {rs[i] : i \in 1..Len(rs)} \cup {FileRule(sC, EXCLUDE)}

\* ---------------------------------------------------------------- state
VARIABLES
    rules,      \* IgnoreFile.rules
    prev,       \* the rule sequence before the last call
    op,         \* the call that has just returned: its name, the rule its
                \* arguments built, its pass budget; NoCall between calls
    err,        \* the error that call returned ("nil" for none)
    results,    \* the []Result (or the single Result) that call returned
    conflicts,  \* the []Conflict that call returned (FindConflicts)
    steps,      \* the fixConflict calls made during that call, in order
    passes      \* the detect-and-repair passes of FixConflicts that call ran

vars == <<rules, prev, op, err, results, conflicts, steps, passes>>

\* A call: the method, the rule its arguments built (the rule to move for
\* MoveRule), its integer argument (the pass budget of FixConflicts, the
\* direction of MoveRule), the target rule of MoveRule (the second rule of
\* checkConflict and subsumes), its string argument (the content of Parse,
\* the path, extension, name or pattern of Add* and Delete*), and the
\* intervening rules of checkConflict.
Call(name, rule, n) ==
    [name |-> name, rule |-> rule, n |-> n, target |-> NoRule, content |-> <<>>,
     intervening |-> <<>>]

NoCall == Call("", NoRule, 0)

\* The container has one owner and calls do not overlap: a call is made only
\* after the caller has taken the result of the one before.
Idle == op = NoCall

Init ==
    /\ rules = <<>>
    /\ prev = <<>>
    /\ op = NoCall
    /\ err = "nil"
    /\ results = <<>>
    /\ conflicts = <<>>
    /\ steps = <<>>
    /\ passes = 0

\* Parse: one line of content appended through addRule, no validation.
Parse ==
    \E content \in Lines :
        /\ Idle
        /\ Len(rules) < MaxRules
        /\ rules' = ParseLine(rules, content)
        /\ prev' = rules
        /\ op' = [Call("Parse", IF parseRule(TrimSpace(content)).err = "nil"
                                   /\ ParseLine(rules, content) # rules
                                THEN parseRule(TrimSpace(content)).rule ELSE NoRule, 0)
                     EXCEPT !.content = content]
        /\ err' = "nil"
        /\ results' = <<>>
        /\ conflicts' = <<>>
        /\ steps' = <<>>
        /\ passes' = 0

\* The Add* facades: build the rule, return the constructor's error, or
\* hand the rule to addRuleWithConflictResolution.
AddBuilt(name, arg, built) ==
    /\ Idle
    /\ Len(rules) < MaxRules
    /\ prev' = rules
    /\ conflicts' = <<>>
    /\ op' = [Call(name, built.rule, 0) EXCEPT !.content = arg]
    /\ IF built.err # "nil"
       THEN /\ rules' = rules
            /\ err' = built.err
            /\ results' = <<>>
            /\ steps' = <<>>
            /\ passes' = 0
       ELSE LET returned(a) ==
                    /\ rules' = a.rules
                    /\ err' = a.err
                    /\ results' = a.results
                    /\ steps' = a.steps
                    /\ passes' = a.passes
            IN returned(addRuleWithConflictResolution(rules, built.rule))

AddFile == \E a \in FileArgs : AddBuilt("AddFile", a[1], NewFileRule(a[1], a[2]))

AddExtension == \E a \in ExtensionArgs : AddBuilt("AddExtension", a[1], NewExtensionRule(a[1], a[2]))

AddDirectory ==
    \E a \in DirectoryArgs : AddBuilt("AddDirectory", a[1], NewDirectoryRule(a[1], a[2], a[3]))

AddGlob == \E a \in GlobArgs : AddBuilt("AddGlob", a[1], NewGlobRule(a[1], a[2]))

\* The Delete* facades: build the rule, then deleteMatchingRule(rule, REQUESTED).
DeleteBuilt(name, arg, built) ==
    /\ Idle
    /\ prev' = rules
    /\ conflicts' = <<>>
    /\ steps' = <<>>
    /\ passes' = 0
    /\ op' = [Call(name, built.rule, 0) EXCEPT !.content = arg]
    /\ IF built.err # "nil"
       THEN /\ rules' = rules
            /\ err' = built.err
            /\ results' = <<EmptyResult>>
       ELSE LET d == deleteMatchingRule(rules, built.rule, REQUESTED)
            IN /\ rules' = d.rules
               /\ err' = d.err
               /\ results' = <<d.result>>

DeleteFile == \E a \in FileArgs : DeleteBuilt("DeleteFile", a[1], NewFileRule(a[1], a[2]))

DeleteExtension ==
    \E a \in ExtensionArgs : DeleteBuilt("DeleteExtension", a[1], NewExtensionRule(a[1], a[2]))

DeleteDirectory ==
    \E a \in DirectoryArgs : DeleteBuilt("DeleteDirectory", a[1], NewDirectoryRule(a[1], a[2], a[3]))

DeleteGlob == \E a \in GlobArgs : DeleteBuilt("DeleteGlob", a[1], NewGlobRule(a[1], a[2]))

FixConflictsCall ==
    \E n \in PassBudgets :
        LET returned(f) ==
                /\ rules' = f.rules
                /\ err' = f.err
                /\ results' = f.fixLogs
                /\ steps' = f.steps
                /\ passes' = f.passes
        IN /\ Idle
           /\ prev' = rules
           /\ op' = Call("FixConflicts", NoRule, n)
           /\ conflicts' = <<>>
           /\ returned(FixConflicts(rules, n))

FindConflictsCall ==
    /\ Idle
    /\ conflicts' = FindConflicts(rules)
    /\ rules' = rules
    /\ prev' = rules
    /\ op' = Call("FindConflicts", NoRule, 0)
    /\ err' = "nil"
    /\ results' = <<>>
    /\ steps' = <<>>
    /\ passes' = 0

\* The public MoveRule, on rules of the container and on a rule it does not
\* hold, in either direction and with a direction that is neither.
MoveRuleCall ==
    \E r \in MoveRuleArgs(rules), t \in MoveRuleArgs(rules), direction \in MoveDirections :
        LET returned(m) ==
                /\ rules' = m.rules
                /\ err' = m.err
                /\ results' = <<m.result>>
        IN /\ Idle
           /\ prev' = rules
           /\ op' = [Call("MoveRule", r, direction) EXCEPT !.target = t]
           /\ conflicts' = <<>>
           /\ steps' = <<>>
           /\ passes' = 0
           /\ returned(MoveRule(rules, r, t, direction, REQUESTED))

\* checkConflict(left, right, intervening) on rules of every variant; the
\* (Conflict, bool) it returns is kept as the one element of conflicts.
CheckConflictCall ==
    /\ Idle
    /\ \E left \in RuleUniverse, right \in RuleUniverse, intervening \in Intervenings :
        /\ conflicts' = <<checkConflict(left, right, intervening)>>
        /\ op' = [Call("checkConflict", left, 0)
                     EXCEPT !.target = right, !.intervening = intervening]
        /\ rules' = rules
        /\ prev' = rules
        /\ err' = "nil"
        /\ results' = <<>>
        /\ steps' = <<>>
        /\ passes' = 0

\* subsumes(left, right); the boolean it returns is kept as the one element
\* of results.
SubsumesCall ==
    /\ Idle
    /\ \E left \in RuleUniverse, right \in RuleUniverse :
        /\ results' = <<subsumes(left, right)>>
        /\ op' = [Call("subsumes", left, 0) EXCEPT !.target = right]
        /\ rules' = rules
        /\ prev' = rules
        /\ err' = "nil"
        /\ conflicts' = <<>>
        /\ steps' = <<>>
        /\ passes' = 0

\* The caller takes the result; the record of the call is dropped.
Return ==
    /\ ~Idle
    /\ rules' = rules
    /\ prev' = <<>>
    /\ op' = NoCall
    /\ err' = "nil"
    /\ results' = <<>>
    /\ conflicts' = <<>>
    /\ steps' = <<>>
    /\ passes' = 0

Next ==
    \/ Parse
    \/ AddFile
    \/ AddExtension
    \/ AddDirectory
    \/ AddGlob
    \/ DeleteFile
    \/ DeleteExtension
    \/ DeleteDirectory
    \/ DeleteGlob
    \/ FixConflictsCall
    \/ FindConflictsCall
    \/ Return

Spec == Init /\ [][Next]_vars

\* A container built from empty by the Add* and Delete* facades only.
NextAddDelete ==
    \/ AddFile
    \/ AddExtension
    \/ AddDirectory
    \/ AddGlob
    \/ DeleteFile
    \/ DeleteExtension
    \/ DeleteDirectory
    \/ DeleteGlob
    \/ Return

SpecAddDelete == Init /\ [][NextAddDelete]_vars

\* A container built from empty by the Add* facades only, and read by
\* FindConflicts.
NextAdd ==
    \/ AddFile
    \/ AddExtension
    \/ AddDirectory
    \/ AddGlob
    \/ FindConflictsCall
    \/ Return

SpecAdd == Init /\ [][NextAdd]_vars

\* Reordering by hand: containers read by Parse, in every order of their
\* lines, and the public MoveRule on them.
NextMove ==
    \/ Parse
    \/ MoveRuleCall
    \/ Return

SpecMove == Init /\ [][NextMove]_vars

\* The classifier and the subsumption relation as pure functions of their
\* arguments.
NextClassify ==
    \/ CheckConflictCall
    \/ SubsumesCall
    \/ Return

SpecClassify == Init /\ [][NextClassify]_vars

\* =============================================================== claims
AddNames == {"AddFile", "AddExtension", "AddDirectory", "AddGlob"}

InsertionConflictErrors == {"semantic conflict", "redundant rule", "unreachable rule"}

\* Whether the call that has just returned is an Add* whose arguments passed
\* the constructor's validation.
AddOfValidRule == op.name \in AddNames /\ op.rule # NoRule

Holds(rs, r) == \E i \in 1..Len(rs) : rulesEqual(rs[i], r)

Count(rs, r) == Cardinality({i \in 1..Len(rs) : rulesEqual(rs[i], r)})

RemoveAt(rs, i) == SubSeq(rs, 1, i - 1) \o SubSeq(rs, i + 1, Len(rs))

\* The position (from 1) of the first rule of rs equal to r, 0 when there is none.
IndexOf(rs, r) ==
    IF Holds(rs, r)
    THEN CHOOSE i \in 1..Len(rs) :
            rulesEqual(rs[i], r) /\ \A k \in 1..(i - 1) : ~rulesEqual(rs[k], r)
    ELSE 0

OnlySemantic(cs) == \A k \in 1..Len(cs) : cs[k].ConflictType = SEMANTIC_CONFLICT

\* ---- C1
\* C1: when an Add* call returns semantic-conflict, redundant-rule or
\* unreachable-rule, the rule sequence is the one the container held before
\* the call: same rules, same order, same length.
C1_RejectedAddLeavesRules ==
    (op.name \in AddNames /\ err \in InsertionConflictErrors) => rules = prev

\* Scenario E: AddFile of a path the container's extension rule covers is
\* rejected as unreachable.
C1_Witness ==
    /\ op.name = "AddFile"
    /\ err = "unreachable rule"
    /\ prev = <<ExtensionRule(sT, INCLUDE)>>
    /\ op.rule = FileRule(sBFT, INCLUDE)

\* ---- C2
\* C2: after an Add* call that returns no error the container holds a rule
\* equal (same pattern key, same action) to the rule that was added.
C2_AddedRuleIsHeld ==
    (AddOfValidRule /\ err = "nil") => Holds(rules, op.rule)

\* ---- C3
\* The classification add makes of its rule against the existing rule at
\* position i (from 1), with every later rule as intervening.
AddClassification(rs, rule, i) == checkConflict(rs[i], rule, SubSeq(rs, i + 1, Len(rs)))

Rejecting(rs, rule, i) ==
    /\ AddClassification(rs, rule, i).found
    /\ AddClassification(rs, rule, i).ConflictType
          \in {SEMANTIC_CONFLICT, REDUNDANT_RULE, UNREACHABLE_RULE}

ErrorOf(conflictType) ==
    CASE conflictType = SEMANTIC_CONFLICT -> "semantic conflict"
      [] conflictType = REDUNDANT_RULE -> "redundant rule"
      [] conflictType = UNREACHABLE_RULE -> "unreachable rule"
      [] OTHER -> "nil"

\* C3: add is rejected exactly when some existing rule, classified against the
\* new rule with all later rules as intervening, gives SEMANTIC_CONFLICT,
\* REDUNDANT_RULE or UNREACHABLE_RULE; the error is the one of the first such
\* existing rule; an INEFFECTIVE_RULE classification alone rejects nothing.
C3_RejectedByFirstRejectingRule ==
    AddOfValidRule =>
        IF \E i \in 1..Len(prev) : Rejecting(prev, op.rule, i)
        THEN LET first == CHOOSE i \in 1..Len(prev) :
                            /\ Rejecting(prev, op.rule, i)
                            /\ \A k \in 1..(i - 1) : ~Rejecting(prev, op.rule, k)
             IN err = ErrorOf(AddClassification(prev, op.rule, first).ConflictType)
        ELSE err \notin InsertionConflictErrors

\* An add rejected by its second existing rule after the first one was
\* classified INEFFECTIVE_RULE.
C3_Witness ==
    /\ AddOfValidRule
    /\ Len(prev) = 2
    /\ AddClassification(prev, op.rule, 1).ConflictType = INEFFECTIVE_RULE
    /\ Rejecting(prev, op.rule, 2)
    /\ err = "redundant rule"

\* ---- C4
\* C4: an Add* call whose arguments pass validation returns no error or one of
\* semantic-conflict, redundant-rule, unreachable-rule, and nothing else.
C4_AddFailsOnlyByRejection ==
    AddOfValidRule => err \in InsertionConflictErrors \cup {"nil"}

\* ---- C5
\* C5: after FixConflicts(n) every conflict FindConflicts reports is a
\* SEMANTIC_CONFLICT. Stated for the calls with n >= 1 that return no error
\* and leave the container as they found it: there the passes have come back
\* to their starting point, so that no larger budget gives another outcome.
C5_OnlySemanticConflictsAfterFix ==
    (op.name = "FixConflicts" /\ op.n >= 1 /\ err = "nil" /\ rules = prev)
        => OnlySemantic(FindConflicts(rules))

\* ---- C6
\* C6: in a container built from empty by Add* and Delete* calls no rule is
\* directly followed by a rule of the same action that it subsumes.
C6_NoAdjacentSubsumedPair ==
    \A i \in 1..(Len(rules) - 1) :
        ~(Action(rules[i]) = Action(rules[i + 1]) /\ subsumes(rules[i], rules[i + 1]))

\* ---- C7
\* The container holds k >= 2 rules equal to r and no conflict other than the
\* ones between those rules.
OnlyDuplicatesOf(rs, r) ==
    /\ Count(rs, r) >= 2
    /\ \A k \in 1..Len(FindConflicts(rs)) :
          /\ FindConflicts(rs)[k].ConflictType = REDUNDANT_RULE
          /\ rulesEqual(FindConflicts(rs)[k].Left, r)

RECURSIVE Without(_, _)
Without(rs, r) ==
    IF rs = <<>> THEN <<>>
    ELSE IF rulesEqual(Head(rs), r) THEN Without(Tail(rs), r)
    ELSE <<Head(rs)>> \o Without(Tail(rs), r)

\* C7: FixConflicts(n), n >= 1, on a container whose only conflicts are k >= 2
\* equal rules leaves exactly one of them and every other rule in place; with
\* k = 2 it returns exactly one REMOVED result.
C7_DuplicatesCollapseToOne ==
    \A i \in 1..Len(prev) :
        (op.name = "FixConflicts" /\ op.n >= 1 /\ OnlyDuplicatesOf(prev, prev[i])) =>
            /\ Count(rules, prev[i]) = 1
            /\ Without(rules, prev[i]) = Without(prev, prev[i])
            /\ Count(prev, prev[i]) = 2 =>
                  results = <<Result(prev[i], REMOVED, AUTOMATED_FIX)>>

\* ---- C8
\* Right is at the index directly after Left (indices by first equal rule).
RightDirectlyAfterLeft(rs, l, r) == IndexOf(rs, l) # 0 /\ IndexOf(rs, r) = IndexOf(rs, l) + 1

\* after is before with the first rule equal to r deleted, nothing else touched.
DeletedOnly(before, after, r) ==
    IndexOf(before, r) # 0 /\ after = RemoveAt(before, IndexOf(before, r))

\* after is before with the first rule equal to r taken out and put directly
\* after the first rule equal to l, nothing else deleted or moved.
MovedDirectlyAfter(before, after, r, l) ==
    /\ IndexOf(before, r) # 0
    /\ IndexOf(after, l) # 0
    /\ IndexOf(after, l) + 1 <= Len(after)
    /\ rulesEqual(after[IndexOf(after, l) + 1], r)
    /\ RemoveAt(before, IndexOf(before, r)) = RemoveAt(after, IndexOf(after, l) + 1)

UnreachableRepair(s) == s.conflict.ConflictType = UNREACHABLE_RULE /\ s.err = "nil"

\* C8: a repair of an UNREACHABLE_RULE conflict deletes Right when Right is at
\* the index directly after Left and otherwise moves Right to the index
\* directly after Left; Left is neither deleted nor moved; FixConflicts on
\* [broader, specific] leaves [broader] and returns one REMOVED result.
C8_UnreachableRepair ==
    /\ \A k \in 1..Len(steps) :
          UnreachableRepair(steps[k]) =>
              IF RightDirectlyAfterLeft(steps[k].before, steps[k].conflict.Left,
                                        steps[k].conflict.Right)
              THEN /\ DeletedOnly(steps[k].before, steps[k].after, steps[k].conflict.Right)
                   /\ steps[k].result = Result(steps[k].conflict.Right, REMOVED, AUTOMATED_FIX)
              ELSE /\ MovedDirectlyAfter(steps[k].before, steps[k].after,
                                         steps[k].conflict.Right, steps[k].conflict.Left)
                   /\ steps[k].result = Result(steps[k].conflict.Right, MOVED, AUTOMATED_FIX)
    /\ (/\ op.name = "FixConflicts"
        /\ op.n >= 1
        /\ Len(prev) = 2
        /\ Pattern(prev[1]) # Pattern(prev[2])
        /\ Action(prev[1]) = Action(prev[2])
        /\ subsumes(prev[1], prev[2]))
          => /\ rules = <<prev[1]>>
             /\ results = <<Result(prev[2], REMOVED, AUTOMATED_FIX)>>

\* ---- C9
IneffectiveRepair(s) == s.conflict.ConflictType = INEFFECTIVE_RULE /\ s.err = "nil"

\* C9: a repair of an INEFFECTIVE_RULE conflict puts the EXCLUDE rule Left at
\* the index directly after the INCLUDE rule Right and deletes nothing;
\* FixConflicts on [EXCLUDE specific, INCLUDE broader] leaves
\* [INCLUDE broader, EXCLUDE specific] and returns one MOVED result.
C9_IneffectiveRepair ==
    /\ \A k \in 1..Len(steps) :
          IneffectiveRepair(steps[k]) =>
              /\ MovedDirectlyAfter(steps[k].before, steps[k].after,
                                    steps[k].conflict.Left, steps[k].conflict.Right)
              /\ Len(steps[k].after) = Len(steps[k].before)
    /\ (/\ op.name = "FixConflicts"
        /\ op.n >= 1
        /\ Len(prev) = 2
        /\ Pattern(prev[1]) # Pattern(prev[2])
        /\ Action(prev[1]) = EXCLUDE
        /\ Action(prev[2]) = INCLUDE
        /\ subsumes(prev[2], prev[1]))
          => /\ rules = <<prev[2], prev[1]>>
             /\ results = <<Result(prev[1], MOVED, AUTOMATED_FIX)>>

\* A repair that carries the exception over a rule lying between it and the
\* broader INCLUDE.
C9_Witness ==
    /\ op.name = "FixConflicts"
    /\ prev = <<FileRule(sBFT, EXCLUDE), FileRule(sC, INCLUDE),
                DirectoryRule(sB, RECURSIVE_MODE, INCLUDE)>>
    /\ rules = <<FileRule(sC, INCLUDE), DirectoryRule(sB, RECURSIVE_MODE, INCLUDE),
                 FileRule(sBFT, EXCLUDE)>>
    /\ \E k \in 1..Len(steps) :
          IneffectiveRepair(steps[k]) /\ steps[k].result.Result = MOVED

\* ---- C10
ScenarioD ==
    <<DirectoryRule(sB, DIRECTORY, INCLUDE), FileRule(sBFT, EXCLUDE),
      DirectoryRule(sB, RECURSIVE_MODE, INCLUDE)>>

\* C10 as claimed: FindConflicts on [b/, !b/f.t, b/**] returns the empty list.
C10_ScenarioDHasNoConflict ==
    (op.name = "FindConflicts" /\ rules = ScenarioD) => conflicts = <<>>

\* C10 as amended: FindConflicts on [b/, !b/f.t, b/**] reports no conflict
\* for the two directory rules, which the exception between them rescues, and
\* reports exactly one conflict, the INEFFECTIVE_RULE of the exception against
\* the broader INCLUDE rule that follows it.
C10_ScenarioDHasOneIneffective ==
    (op.name = "FindConflicts" /\ rules = ScenarioD) =>
        conflicts = <<Conflict(FileRule(sBFT, EXCLUDE),
                               DirectoryRule(sB, RECURSIVE_MODE, INCLUDE),
                               INEFFECTIVE_RULE)>>

C10_Witness == op.name = "FindConflicts" /\ rules = ScenarioD /\ Len(conflicts) = 1

\* ---- C11
SemanticRepair(s) == s.conflict.ConflictType = SEMANTIC_CONFLICT

\* C11: a repair of a SEMANTIC_CONFLICT leaves the rule sequence as it is and
\* returns REVIEW_RECOMMENDED / FIX_UNKNOWN for the conflict's left rule; a
\* container whose only conflicts are SEMANTIC_CONFLICTs is the same before
\* and after FixConflicts(n), for every n, the call returns no error and its
\* results are one such result per conflict and pass.
C11_SemanticRepairChangesNothing ==
    /\ \A k \in 1..Len(steps) :
          SemanticRepair(steps[k]) =>
              /\ steps[k].after = steps[k].before
              /\ steps[k].err = "nil"
              /\ steps[k].result
                    = Result(steps[k].conflict.Left, REVIEW_RECOMMENDED, FIX_UNKNOWN)
    /\ (op.name = "FixConflicts" /\ OnlySemantic(FindConflicts(prev))) =>
          /\ rules = prev
          /\ err = "nil"
          /\ passes = (IF FindConflicts(prev) = <<>> THEN 0 ELSE op.n)
          /\ Len(results) = op.n * Len(FindConflicts(prev))
          /\ \A k \in 1..Len(results) :
                /\ results[k].Result = REVIEW_RECOMMENDED
                /\ results[k].Reason = FIX_UNKNOWN

\* FixConflicts with a budget of two passes on a container of an INCLUDE and
\* an EXCLUDE rule of one pattern.
C11_Witness ==
    /\ op.name = "FixConflicts"
    /\ op.n = 2
    /\ prev = <<FileRule(sBFT, INCLUDE), FileRule(sBFT, EXCLUDE)>>
    /\ rules = prev
    /\ Len(results) = 2
    /\ \A k \in 1..Len(steps) : SemanticRepair(steps[k])

\* ---- C12
\* C12: FixConflicts(maxPasses) returns after at most maxPasses passes (the
\* FixConflicts that add runs after at most 20); a container without conflicts
\* costs no pass and is returned as it was; a call that returns no error
\* having used less than its budget has left no conflict.
C12_AtMostMaxPasses ==
    /\ op.name = "FixConflicts" =>
          /\ passes <= op.n
          /\ FindConflicts(prev) = <<>> => (passes = 0 /\ rules = prev /\ results = <<>>)
          /\ (err = "nil" /\ passes < op.n) => FindConflicts(rules) = <<>>
    /\ op.name \in AddNames => passes <= AddMaxPasses

\* The whole budget spent on repairs that undo each other: the container is
\* back where it started and still has conflicts that are not semantic.
C12_Witness ==
    /\ op.name = "FixConflicts"
    /\ op.n = MaxPasses
    /\ passes = op.n
    /\ err = "nil"
    /\ rules = prev
    /\ ~OnlySemantic(FindConflicts(rules))

\* ---- C13
\* r is the left or the right rule of a conflict the call repaired.
Involved(r) ==
    \E k \in 1..Len(steps) :
        \/ rulesEqual(steps[k].conflict.Left, r)
        \/ rulesEqual(steps[k].conflict.Right, r)

Uninvolved(rs) == SelectSeq(rs, LAMBDA r : ~Involved(r))

\* C13: FixConflicts adds no rule, and the rules that are on neither side of
\* a conflict it repaired are all still there, in the order they had.
C13_FixTouchesOnlyConflictSides ==
    op.name = "FixConflicts" =>
        /\ \A i \in 1..Len(rules) : Count(rules, rules[i]) <= Count(prev, rules[i])
        /\ Uninvolved(rules) = Uninvolved(prev)

\* A call that changed a container of three rules, one of them on no side of
\* any conflict and standing behind the rules that were.
C13_Witness ==
    /\ op.name = "FixConflicts"
    /\ err = "nil"
    /\ Len(prev) = 3
    /\ rules # prev
    /\ ~Involved(prev[3])
    /\ Uninvolved(rules) = <<prev[3]>>

\* ---- C14
\* The conflicts of the pairs (i, j), i < j, taken in the order of the number
\* p = i * Len(rs) + j from p on (positions from 0), each pair classified with
\* the rules strictly between its two as intervening.
RECURSIVE ConflictsOfPairs(_, _)
ConflictsOfPairs(rs, p) ==
    IF p >= Len(rs) * Len(rs) THEN <<>>
    ELSE LET i == (p \div Len(rs)) + 1
             j == (p % Len(rs)) + 1
             here(c) == IF i < j /\ c.found THEN <<c>> ELSE <<>>
         IN (IF i < j THEN here(checkConflict(rs[i], rs[j], SubSeq(rs, i + 1, j - 1)))
             ELSE <<>>) \o ConflictsOfPairs(rs, p + 1)

\* C14: FindConflicts leaves the rule sequence as it is, returns the
\* conflicts of all pairs (i, j), i < j, in lexicographic order, each
\* classified with rules[i+1..j-1] as intervening, and called again on the
\* unchanged container returns the same list.
C14_FindConflictsIsOrderedRead ==
    op.name = "FindConflicts" =>
        /\ rules = prev
        /\ conflicts = ConflictsOfPairs(prev, 0)
        /\ FindConflicts(rules) = conflicts

\* Three rules of which every pair is a conflict, of more than one type.
C14_Witness ==
    /\ op.name = "FindConflicts"
    /\ Len(rules) = 3
    /\ Len(conflicts) = 3
    /\ conflicts[1].ConflictType # conflicts[2].ConflictType

\* ---- C15
\* The call that has just returned is MoveRule(r, t, direction) with r and t
\* two different rules the container held and direction BEFORE or AFTER.
MoveOfHeldRules ==
    /\ op.name = "MoveRule"
    /\ op.n \in {BEFORE, AFTER}
    /\ ~rulesEqual(op.rule, op.target)
    /\ Holds(prev, op.rule)
    /\ Holds(prev, op.target)

\* The position r has after the move: next to the first rule equal to t.
MovedTo == IF op.n = BEFORE THEN IndexOf(rules, op.target) - 1
           ELSE IndexOf(rules, op.target) + 1

\* C15: after a successful MoveRule(r, t, direction) on two different rules
\* of the container, r is directly before t (BEFORE) or directly after t
\* (AFTER), wherever it started; the container has the rules it had and the
\* rules other than r are in the order they had.
C15_MovedNextToTarget ==
    (MoveOfHeldRules /\ err = "nil") =>
        /\ MovedTo \in 1..Len(rules)
        /\ rulesEqual(rules[MovedTo], op.rule)
        /\ Len(rules) = Len(prev)
        /\ RemoveAt(rules, MovedTo) = RemoveAt(prev, IndexOf(prev, op.rule))

\* A rule carried from the front of three rules to behind the last one, and
\* reported MOVED.
C15_Witness ==
    /\ MoveOfHeldRules
    /\ err = "nil"
    /\ op.n = AFTER
    /\ Len(prev) = 3
    /\ IndexOf(prev, op.rule) = 1
    /\ IndexOf(prev, op.target) = 3
    /\ rules = <<prev[2], prev[3], prev[1]>>
    /\ results = <<Result(op.rule, MOVED, REQUESTED)>>

\* ---- C16
\* r already stands where MoveRule(r, t, direction) would put it.
AlreadyInPlace ==
    \/ op.n = BEFORE /\ IndexOf(prev, op.rule) = IndexOf(prev, op.target) - 1
    \/ op.n = AFTER /\ IndexOf(prev, op.rule) = IndexOf(prev, op.target) + 1

\* C16: MoveRule(r, t, direction) on a container where r is already directly
\* before t (BEFORE) or directly after t (AFTER) returns no error, leaves the
\* rule sequence as it is and returns the empty Result, not a MOVED one.
C16_MoveInPlaceIsNoOp ==
    (MoveOfHeldRules /\ AlreadyInPlace) =>
        /\ err = "nil"
        /\ rules = prev
        /\ results = <<EmptyResult>>

C16_Witness ==
    /\ MoveOfHeldRules
    /\ AlreadyInPlace
    /\ op.n = BEFORE
    /\ Len(prev) = 3
    /\ results = <<EmptyResult>>

\* ---- C17
DeleteNames == {"DeleteFile", "DeleteExtension", "DeleteDirectory", "DeleteGlob"}

\* C17: Delete*(r) on a container holding a rule equal to r removes the first
\* such rule and nothing else and returns REMOVED (reason REQUESTED) for r;
\* on a container holding none it returns rule-not-found and leaves the
\* container as it is.
C17_DeleteRemovesFirstMatch ==
    (op.name \in DeleteNames /\ op.rule # NoRule) =>
        IF Holds(prev, op.rule)
        THEN /\ err = "nil"
             /\ rules = RemoveAt(prev, IndexOf(prev, op.rule))
             /\ Len(rules) = Len(prev) - 1
             /\ results = <<Result(op.rule, REMOVED, REQUESTED)>>
        ELSE /\ err = "rule not found"
             /\ rules = prev

\* A delete on a container that holds the rule twice, with another rule
\* between the two.
C17_Witness ==
    /\ op.name \in DeleteNames
    /\ Len(prev) = 3
    /\ rulesEqual(prev[1], op.rule)
    /\ ~rulesEqual(prev[2], op.rule)
    /\ rulesEqual(prev[3], op.rule)
    /\ rules = <<prev[2], prev[3]>>

\* ---- C18
\* The three spellings of the extension t.
SpellingsOfT == {sT, <<".">> \o sT, sStarT}

\* C18: AddExtension and DeleteExtension called with "t", ".t" or "*.t" work
\* on one and the same rule, which renders as "*.t" behind its action prefix:
\* an add on a container that holds just that rule is rejected as redundant,
\* a delete on a container that holds it removes a rule.
C18_SpellingsAreOneExtension ==
    (op.name \in {"AddExtension", "DeleteExtension"} /\ op.content \in SpellingsOfT
        /\ op.rule # NoRule) =>
        /\ rulesEqual(op.rule, ExtensionRule(sT, Action(op.rule)))
        /\ Render(op.rule) = ActionPrefix(Action(op.rule)) \o sStarT
        /\ (op.name = "AddExtension" /\ prev = <<ExtensionRule(sT, Action(op.rule))>>) =>
              (err = "redundant rule" /\ rules = prev)
        /\ (op.name = "DeleteExtension" /\ Holds(prev, ExtensionRule(sT, Action(op.rule)))) =>
              (err = "nil" /\ Len(rules) = Len(prev) - 1)

\* ---- C19
\* The rule of the same variant and fields with the other action.
Opposite(r) == [r EXCEPT !.act = IF r.act = INCLUDE THEN EXCLUDE ELSE INCLUDE]

\* C19: every rule the container holds renders as its action prefix followed
\* by its pattern key, has the pattern key of the rule of the same shape and
\* the other action, and is classified SEMANTIC_CONFLICT against that rule.
C19_RenderIsPrefixAndPattern ==
    \A k \in 1..Len(rules) :
        /\ Render(rules[k]) = ActionPrefix(Action(rules[k])) \o Pattern(rules[k])
        /\ Pattern(Opposite(rules[k])) = Pattern(rules[k])
        /\ checkConflict(rules[k], Opposite(rules[k]), <<>>)
              = Conflict(rules[k], Opposite(rules[k]), SEMANTIC_CONFLICT)

\* ---- C20
PlainOptions == RenderOptions(FALSE, <<>>)

\* C20: after Parse of a line that parses to a rule, Render without header
\* gives the lines it gave before followed by the line as written, without
\* the whitespace around it; a blank line, a comment or a line that does not
\* parse adds no line.
C20_ParseRenderRoundTrip ==
    op.name = "Parse" =>
        RenderFile(rules, PlainOptions)
            = Join([k \in 1..Len(prev) |-> Render(prev[k])]
                   \o (IF op.rule # NoRule THEN <<TrimSpace(op.content)>> ELSE <<>>))

\* ---- C21
\* Whether the call that has just returned is checkConflict on two rules of
\* one action and different pattern keys.
ClassifiedSameAction ==
    /\ op.name = "checkConflict"
    /\ Action(op.rule) = Action(op.target)
    /\ Pattern(op.rule) # Pattern(op.target)

\* An exception is relevant to a broader and a specific rule.
Relevant(e, broader, specific) ==
    /\ HasPrefix(Pattern(e), TrimSuffix(Pattern(broader), <<"/", "*", "*">>))
    /\ (specific.kind = "Directory" /\ specific.mode = DIRECTORY)
          => HasPrefix(Pattern(e), specific.name)
    /\ specific.kind = "File" => HasPrefix(Pattern(specific), Pattern(e))

Rescued(broader, specific, intervening) ==
    \E k \in 1..Len(intervening) :
        /\ Action(intervening[k]) # Action(broader)
        /\ Relevant(intervening[k], broader, specific)

\* C21: for two rules of one action and different pattern keys of which one
\* subsumes the other, checkConflict returns no conflict when an intervening
\* rule of the opposite action is relevant to the pair, and UNREACHABLE_RULE
\* with the broader rule on the left when none is.
C21_RelevantExceptionRescues ==
    ClassifiedSameAction =>
        \A pair \in {<<op.rule, op.target>>, <<op.target, op.rule>>} :
            subsumes(pair[1], pair[2]) =>
                conflicts = << IF Rescued(pair[1], pair[2], op.intervening)
                               THEN NoConflict
                               ELSE Conflict(pair[1], pair[2], UNREACHABLE_RULE) >>

\* A DIRECTORY-mode rule on a nested directory after the rule on its parent,
\* rescued by an excluded file inside the nested directory.
C21_Witness ==
    /\ ClassifiedSameAction
    /\ op.rule = DirectoryRule(sB, DIRECTORY, INCLUDE)
    /\ op.target = DirectoryRule(sBC, DIRECTORY, INCLUDE)
    /\ op.intervening = <<FileRule(sBCFT, EXCLUDE)>>
    /\ subsumes(op.rule, op.target)
    /\ conflicts = <<NoConflict>>

\* ---- C22
\* An EXCLUDE rule followed by an INCLUDE rule of another pattern key that
\* subsumes it.
ExcludeBeforeBroaderInclude(left, right) ==
    /\ Pattern(left) # Pattern(right)
    /\ Action(left) = EXCLUDE
    /\ Action(right) = INCLUDE
    /\ subsumes(right, left)

\* C22: checkConflict returns INEFFECTIVE_RULE, with its arguments as the
\* sides, exactly when the pattern keys differ, left is EXCLUDE, right is
\* INCLUDE and right subsumes left; an INCLUDE rule followed by an EXCLUDE
\* rule of another pattern key that it subsumes is no conflict, whatever the
\* intervening rules.
C22_IneffectiveOnlyExcludeFirst ==
    op.name = "checkConflict" =>
        /\ (conflicts[1].found /\ conflicts[1].ConflictType = INEFFECTIVE_RULE)
              <=> ExcludeBeforeBroaderInclude(op.rule, op.target)
        /\ ExcludeBeforeBroaderInclude(op.rule, op.target)
              => conflicts = <<Conflict(op.rule, op.target, INEFFECTIVE_RULE)>>
        /\ ExcludeBeforeBroaderInclude(op.target, op.rule) => conflicts = <<NoConflict>>

\* An excluded file before the recursive INCLUDE rule on its directory, with
\* a rule between the two.
C22_Witness ==
    /\ op.name = "checkConflict"
    /\ op.rule = FileRule(sBFT, EXCLUDE)
    /\ op.target = DirectoryRule(sB, RECURSIVE_MODE, INCLUDE)
    /\ Len(op.intervening) = 1
    /\ conflicts = <<Conflict(op.rule, op.target, INEFFECTIVE_RULE)>>

\* ---- C23
\* C23: every UNREACHABLE_RULE conflict that checkConflict or FindConflicts
\* returns has two sides of one action, and its Left subsumes its Right; the
\* conflict checkConflict returns has its two arguments as the sides, in
\* either order.
C23_UnreachableLeftIsBroader ==
    op.name \in {"checkConflict", "FindConflicts"} =>
        \A k \in 1..Len(conflicts) :
            (conflicts[k].found /\ conflicts[k].ConflictType = UNREACHABLE_RULE) =>
                /\ Action(conflicts[k].Left) = Action(conflicts[k].Right)
                /\ subsumes(conflicts[k].Left, conflicts[k].Right)
                /\ op.name = "checkConflict" =>
                      <<conflicts[k].Left, conflicts[k].Right>>
                          \in {<<op.rule, op.target>>, <<op.target, op.rule>>}

\* The broader rule comes second: a file, then the recursive rule on its
\* directory; the conflict has the directory rule on the left.
C23_Witness ==
    /\ op.name = "checkConflict"
    /\ op.rule = FileRule(sBFT, INCLUDE)
    /\ op.target = DirectoryRule(sB, RECURSIVE_MODE, INCLUDE)
    /\ conflicts = <<Conflict(op.target, op.rule, UNREACHABLE_RULE)>>

\* ---- C24
\* C24: on two rules of one pattern key checkConflict returns
\* SEMANTIC_CONFLICT when their actions differ and REDUNDANT_RULE when they
\* are equal, with its arguments as the sides, whatever the variants of the
\* two rules, whether or not one subsumes the other, and whatever the
\* intervening rules; on rules of different keys it returns neither.
C24_EqualKeysClassifiedFirst ==
    op.name = "checkConflict" =>
        IF Pattern(op.rule) = Pattern(op.target)
        THEN conflicts = << Conflict(op.rule, op.target,
                                     IF Action(op.rule) # Action(op.target)
                                     THEN SEMANTIC_CONFLICT ELSE REDUNDANT_RULE) >>
        ELSE conflicts[1].ConflictType \notin {SEMANTIC_CONFLICT, REDUNDANT_RULE}

\* The extension rule t before the glob rule *.t of the same action, which
\* it subsumes, with a rule between the two.
C24_Witness ==
    /\ op.name = "checkConflict"
    /\ op.rule = ExtensionRule(sT, INCLUDE)
    /\ op.target = GlobRule(sStarT, INCLUDE)
    /\ subsumes(op.rule, op.target)
    /\ Len(op.intervening) = 1
    /\ conflicts = <<Conflict(op.rule, op.target, REDUNDANT_RULE)>>

\* ---- C25
\* C25: for two directory rules of different names, subsumes(left, right)
\* holds exactly when the name of right starts with the name of left,
\* whatever the modes of the two rules.
C25_DirectoryNamePrefixSubsumes ==
    (op.name = "subsumes" /\ op.rule.kind = "Directory" /\ op.target.kind = "Directory"
        /\ op.rule.name # op.target.name) =>
        results = <<HasPrefix(op.target.name, op.rule.name)>>

\* ---- C26
\* The case table of the subsumption relation, for every pair of rules but
\* two directory rules of different names.
SubsumesTable(a, b) ==
    CASE a.kind = "File" -> FALSE
      [] a.kind = "Extension" ->
            b.kind \in {"File", "Glob"} /\ HasSuffix(b.name, <<".">> \o a.name)
      [] a.kind = "Glob" ->
            /\ b.kind = "File"
            /\ HasPrefix(a.name, <<"*", ".">>)
            /\ HasSuffix(b.name, SubSeq(a.name, 2, Len(a.name)))
      [] a.kind = "Directory" ->
            CASE b.kind = "Directory" ->
                    \/ a.mode = RECURSIVE_MODE /\ b.mode \in {DIRECTORY, CHILDREN}
                    \/ a.mode = CHILDREN /\ b.mode = DIRECTORY
              [] b.kind = "File" -> HasPrefix(b.name, a.name \o <<"/">>)
              [] b.kind = "Glob" -> a.mode = RECURSIVE_MODE /\ HasPrefix(b.name, a.name)
              [] OTHER -> FALSE

\* C26: subsumes(left, right) is what the case table gives, for every pair of
\* rules other than two directory rules of different names; in particular
\* subsumes(left, left) is false.
C26_SubsumesFollowsCaseTable ==
    (op.name = "subsumes"
        /\ ~(op.rule.kind = "Directory" /\ op.target.kind = "Directory"
               /\ op.rule.name # op.target.name)) =>
        /\ results = <<SubsumesTable(op.rule, op.target)>>
        /\ op.rule = op.target => results = <<FALSE>>

\* The glob rule *.t on a file whose path ends with .t.
C26_Witness ==
    /\ op.name = "subsumes"
    /\ op.rule = GlobRule(sStarT, INCLUDE)
    /\ op.target = FileRule(sBFT, EXCLUDE)
    /\ results = <<TRUE>>

\* ---- C27
\* An existing rule the new rule has to come before: an EXCLUDE rule that the
\* new rule, an INCLUDE rule, subsumes, or a rule of the new rule's action
\* that it subsumes.
ComesAfterNew(existing, new) ==
    /\ subsumes(new, existing)
    /\ \/ Action(existing) = EXCLUDE /\ Action(new) = INCLUDE
       \/ Action(existing) = Action(new)

\* The rule sequence right after the insertion of an accepted add: the
\* sequence the first repair started from, or the final one when the fixer
\* repaired nothing.
Inserted == IF steps # <<>> THEN steps[1].before ELSE rules

\* C27: an accepted add puts the new rule, before the fixer runs, at an index
\* no greater than that of any existing rule it has to come before, and at
\* the end when there is no such rule.
C27_InsertedBeforeSubsumedRules ==
    (AddOfValidRule /\ err \notin InsertionConflictErrors) =>
        \E at \in 0..Len(prev) :
            /\ Inserted = insertAt(prev, op.rule, at)
            /\ \A i \in 0..(Len(prev) - 1) : ComesAfterNew(At(prev, i), op.rule) => at <= i
            /\ (\A i \in 0..(Len(prev) - 1) : ~ComesAfterNew(At(prev, i), op.rule))
                  => at = Len(prev)

\* ---- C28
RepairOutcomes == {FIXED, REMOVED, MOVED, REVIEW_RECOMMENDED}

RepairReasons == {AUTOMATED_FIX, FIX_UNKNOWN}

\* C28: every Result in the list FixConflicts returns carries a rule, an
\* outcome among FIXED, REMOVED, MOVED and REVIEW_RECOMMENDED, and the reason
\* AUTOMATED_FIX or FIX_UNKNOWN, and the list has one Result for each repair
\* made.
C28_FixResultsDescribeRepairs ==
    op.name = "FixConflicts" =>
        /\ \A k \in 1..Len(results) :
              /\ results[k].Rule # NoRule
              /\ results[k].Result \in RepairOutcomes
              /\ results[k].Reason \in RepairReasons
        /\ err = "nil" => Len(results) = Len(steps)

\* ---- C29
\* C29: on a container built from empty by Add* calls alone, accepted or
\* rejected, FindConflicts returns no conflict.
C29_AddsKeepContainerConflictFree ==
    op.name = "FindConflicts" => conflicts = <<>>

\* FindConflicts on a container of three added rules, the last of them an
\* INCLUDE rule that the first subsumes and the exception between them
\* rescues.
C29_Witness ==
    /\ op.name = "FindConflicts"
    /\ rules = <<DirectoryRule(sB, RECURSIVE_MODE, INCLUDE), DirectoryRule(sB, DIRECTORY, EXCLUDE),
                 FileRule(sBFT, INCLUDE)>>
    /\ conflicts = <<>>

\* ---- C30
NotFoundErrors == {"rule not found", "rule to move not found", "target rule not found"}

\* C30: FixConflicts never returns rule-not-found, rule-to-move-not-found or
\* target-rule-not-found: every conflict collected at the start of a pass is
\* repaired when its turn comes.
C30_FixNeverMissesARule ==
    op.name = "FixConflicts" => err \notin NotFoundErrors
====
